---------------------------- MODULE Spec2Model ----------------------------
(***************************************************************************)
(* A model of assets/models/generate_cube.py: three constant tables        *)
(* (positions, colors, indices) are packed scalar by scalar into the       *)
(* buffered binary file object f, which is flushed to the destination      *)
(* file and closed when the `with` block is left; one line is then printed.*)
(*                                                                         *)
(* Representation.  A Python float literal of the tables (-1.0, 0.0, 1.0)  *)
(* is represented by the integer of the same value; a byte is an integer   *)
(* in 0..255; a bytes object and the content of a file are sequences of    *)
(* bytes.                                                                  *)
(*                                                                         *)
(* File object.  open(path, 'wb') returns an io.BufferedWriter over a raw  *)
(* file opened O_WRONLY|O_CREAT|O_TRUNC.  The whole output (296 bytes) is  *)
(* smaller than the writer's buffer (the device block size, at least       *)
(* io.DEFAULT_BUFFER_SIZE = 8192 on current CPython), so f.write() only    *)
(* extends the buffer; the raw write(2) calls happen in the flush that     *)
(* close() performs when the `with` block is left.  A raw write may be     *)
(* partial (the writer then writes the rest) or may fail (OSError); the    *)
(* failures modelled are those of opening and of writing.                  *)
(***************************************************************************)
EXTENDS Integers, Sequences, FiniteSets, TLC

(***************************************************************************)
(* Bounds of the model.                                                    *)
(***************************************************************************)
\* Runs of the generator in one behaviour (the first run and the re-runs).
MaxRuns == 2
\* Contents the destination may hold before a run: MaxJunk+1 files of
\* unrelated bytes, of lengths 0, 100, ..., 100*MaxJunk.
MaxJunk == 3

(***************************************************************************)
(* The constant tables (lines 8-46).                                       *)
(***************************************************************************)
positions ==
    << -1, -1, -1,
        1, -1, -1,
        1,  1, -1,
       -1,  1, -1,
       -1, -1,  1,
        1, -1,  1,
        1,  1,  1,
       -1,  1,  1 >>

\* colors with the rows of vertices 2 and 3 exchanged (yellow and green).
colors_RowsExchanged ==
    << 0, 0, 0, 1,
       1, 0, 0, 1,
       0, 1, 0, 1,
       1, 1, 0, 1,
       0, 0, 1, 1,
       1, 0, 1, 1,
       1, 1, 1, 1,
       0, 1, 1, 1 >>

colors ==
    << 0, 0, 0, 1,
       1, 0, 0, 1,
       1, 1, 0, 1,
       0, 1, 0, 1,
       0, 0, 1, 1,
       1, 0, 1, 1,
       1, 1, 1, 1,
       0, 1, 1, 1 >>

\* indices with the second triangle of the top face closed on vertex 0,
\* which is not a corner of that face.
indices_OffFace ==
    << 4, 5, 6,  4, 6, 7,
       1, 0, 3,  1, 3, 2,
       5, 1, 2,  5, 2, 6,
       0, 4, 7,  0, 7, 3,
       7, 6, 2,  7, 2, 0,
       0, 1, 5,  0, 5, 4 >>

\* indices with the front face listed clockwise.
indices_Clockwise ==
    << 4, 6, 5,  4, 7, 6,
       1, 0, 3,  1, 3, 2,
       5, 1, 2,  5, 2, 6,
       0, 4, 7,  0, 7, 3,
       7, 6, 2,  7, 2, 3,
       0, 1, 5,  0, 5, 4 >>

indices ==
    << 4, 5, 6,  4, 6, 7,
       1, 0, 3,  1, 3, 2,
       5, 1, 2,  5, 2, 6,
       0, 4, 7,  0, 7, 3,
       7, 6, 2,  7, 2, 3,
       0, 1, 5,  0, 5, 4 >>

(***************************************************************************)
(* struct.pack.                                                            *)
(***************************************************************************)
Abs(x) == IF x < 0 THEN -x ELSE x

RECURSIVE Log2(_)
\* floor(log2(a)) for a >= 1
Log2(a) == IF a < 2 THEN 0 ELSE 1 + Log2(a \div 2)

\* struct.pack('>f', x): the same encoding, most significant byte first.
PackF_BigEndian(x) ==
    IF x = 0 THEN <<0, 0, 0, 0>>
    ELSE LET s    == IF x < 0 THEN 1 ELSE 0
             a    == Abs(x)
             e    == Log2(a)
             bexp == e + 127
             frac == (a - 2^e) * 2^(23 - e)
         IN  << s * 128 + (bexp \div 2),
                (bexp % 2) * 128 + (frac \div 65536),
                (frac \div 256) % 256,
                frac % 256 >>

\* struct.pack('<f', x): the IEEE-754 binary32 encoding of x, least
\* significant byte first.  x is integral with |x| < 2^24, so the conversion
\* from the Python float (a binary64) is exact:
\*    bit 31 sign, bits 30..23 exponent + 127, bits 22..0 fraction.
PackF(x) ==
    IF x = 0 THEN <<0, 0, 0, 0>>
    ELSE LET s    == IF x < 0 THEN 1 ELSE 0
             a    == Abs(x)
             e    == Log2(a)
             bexp == e + 127
             frac == (a - 2^e) * 2^(23 - e)
         IN  << frac % 256,
                (frac \div 256) % 256,
                (bexp % 2) * 128 + (frac \div 65536),
                s * 128 + (bexp \div 2) >>

\* struct.pack('<H', v) accepts 0 <= v <= 65535 (struct.error otherwise)
PackableH(v) == v >= 0 /\ v <= 65535

\* struct.pack('>H', v): high byte first.
PackH_BigEndian(v) == << v \div 256, v % 256 >>

\* struct.pack('<I', v): 32 bits instead of 16 (v < 2^16).
PackH_FourBytes(v) == << v % 256, v \div 256, 0, 0 >>

\* struct.pack('<H', v): the 16-bit unsigned encoding of v, low byte first.
PackH(v) == << v % 256, v \div 256 >>

(***************************************************************************)
(* The destination file and the file object.                               *)
(***************************************************************************)
\* A file of n bytes unrelated to the generator's output.
Junk(n) == [k \in 1..n |-> (37 * k + 11) % 256]

\* What the destination may hold before a run.
PriorContents == { Junk(100 * k) : k \in 0..MaxJunk }

\* write(2) of data at offset pos of a file holding f (pos <= Len(f)).
WriteAt(f, pos, data) ==
    LET end == pos + Len(data)
        n   == IF end > Len(f) THEN end ELSE Len(f)
    IN  [k \in 1..n |-> IF k > pos /\ k <= end THEN data[k - pos] ELSE f[k]]

\* The content after an open that does not truncate (mode 'r+b').
Untruncated(f) == f

\* The content of the destination after open(path, 'wb') succeeded on a
\* destination holding f: 'w' truncates.
Truncated(f) == << >>

\* The size of what a run writes: 4 bytes a float, 2 bytes an unsigned short.
OutputSize == 4 * Len(positions) + 4 * Len(colors) + 2 * Len(indices)

\* How the destination a run starts on compares with what the run writes.
Kind(e, f) ==
    IF ~e THEN "absent"
    ELSE IF Len(f) < OutputSize THEN "shorter"
    ELSE IF Len(f) = OutputSize THEN "equal"
    ELSE "longer"

\* The loops with the colors written first.
Sections_ColorsFirst == << "colors", "positions", "indices" >>

\* The loops of the with block, in the order of the statements (lines 51-60).
Sections == << "positions", "colors", "indices" >>

\* Where control goes when the loop s is exhausted: the next loop, or out of
\* the with block.
After(s) ==
    LET k == CHOOSE n \in 1..Len(Sections) : Sections[n] = s
    IN  IF k < Len(Sections) THEN Sections[k + 1] ELSE "exit"

\* The line with the byte count of the positions and colors alone.
Message_NoIndices == [name |-> "cube.bin", bytes |-> 224]

\* print("Generated cube.bin (296 bytes)"): the line, as the file name and
\* the byte count it states.
Message == [name |-> "cube.bin", bytes |-> 296]

VARIABLES
    pc,       \* where the run is: "start", "positions", "colors", "indices",
              \* "exit" (leaving the with block), "print", "done", "failed"
    i,        \* 1-based position of the running for loop in its table
    exists,   \* whether the destination file exists
    file,     \* the content of the destination file
    fpos,     \* the file offset of f's descriptor
    buf,      \* the bytes f holds buffered, not yet written
    out,      \* the lines printed to standard output by this run
    err,      \* the exception that ended this run, "none" if none did
    runs,     \* the number of runs started
    outputs,  \* the destination's content at the end of each successful run
    prior     \* what the destination was when this run started (see Kind)

vars == << pc, i, exists, file, fpos, buf, out, err, runs, outputs, prior >>

Init ==
    /\ pc = "start"
    /\ i = 1
    /\ exists \in BOOLEAN
    /\ file \in (IF exists THEN PriorContents ELSE { << >> })
    /\ fpos = 0
    /\ buf = << >>
    /\ out = << >>
    /\ err = "none"
    /\ runs = 1
    /\ outputs = << >>
    /\ prior = Kind(exists, file)

\* open(path, 'ab'): no truncation, writes go to the end of the file
OpenAppend ==
    /\ pc = "start"
    /\ exists' = TRUE
    /\ file' = file
    /\ fpos' = Len(file)
    /\ buf' = << >>
    /\ pc' = "positions"
    /\ i' = 1
    /\ UNCHANGED << out, err, runs, outputs, prior >>

\* line 49: open('assets/models/cube.bin', 'wb') succeeds
Open ==
    /\ pc = "start"
    /\ exists' = TRUE
    /\ file' = Truncated(file)
    /\ fpos' = 0
    /\ buf' = << >>
    /\ pc' = Sections[1]
    /\ i' = 1
    /\ UNCHANGED << out, err, runs, outputs, prior >>

\* line 49: open raises OSError (permission, missing directory, no space);
\* the exception is not handled and ends the run
OpenFail ==
    /\ pc = "start"
    /\ pc' = "failed"
    /\ err' = "open"
    /\ UNCHANGED << i, exists, file, fpos, buf, out, runs, outputs, prior >>

\* f.write(data): the bytes join the buffer
BufferedWrite(data) == buf' = buf \o data

\* lines 51-52: one iteration of the loop over positions
WritePosition ==
    /\ pc = "positions"
    /\ BufferedWrite(PackF(positions[i]))
    /\ IF i < Len(positions)
         THEN i' = i + 1 /\ pc' = pc
         ELSE i' = 1 /\ pc' = After(pc)
    /\ UNCHANGED << exists, file, fpos, out, err, runs, outputs, prior >>

\* lines 55-56: one iteration of the loop over colors
WriteColor ==
    /\ pc = "colors"
    /\ BufferedWrite(PackF(colors[i]))
    /\ IF i < Len(colors)
         THEN i' = i + 1 /\ pc' = pc
         ELSE i' = 1 /\ pc' = After(pc)
    /\ UNCHANGED << exists, file, fpos, out, err, runs, outputs, prior >>

\* lines 59-60: one iteration of the loop over indices; a value struct.pack
\* refuses raises struct.error, which leaves the with block (the buffer is
\* flushed by close()) and ends the run
WriteIndex ==
    /\ pc = "indices"
    /\ IF PackableH(indices[i])
         THEN /\ BufferedWrite(PackH(indices[i]))
              /\ IF i < Len(indices)
                   THEN i' = i + 1 /\ pc' = pc
                   ELSE i' = 1 /\ pc' = After(pc)
              /\ err' = err
         ELSE /\ buf' = buf
              /\ i' = i
              /\ pc' = "exit"
              /\ err' = "struct"
    /\ UNCHANGED << exists, file, fpos, out, runs, outputs, prior >>

\* The flush that close() performs has written the first n buffered bytes
\* to the destination, in one write(2) or several, each at the descriptor's
\* offset.
Flushed(n) ==
    /\ file' = WriteAt(file, fpos, SubSeq(buf, 1, n))
    /\ fpos' = fpos + n
    /\ buf' = SubSeq(buf, n + 1, Len(buf))

\* Leaving the with block (after line 60): f.__exit__ calls close(), which
\* flushes the whole buffer and releases the descriptor; an exception raised
\* inside the block then goes on to end the run.
Close ==
    /\ pc = "exit"
    /\ Flushed(Len(buf))
    /\ IF err = "none"
         THEN pc' = "print" /\ outputs' = Append(outputs, file')
         ELSE pc' = "failed" /\ outputs' = outputs
    /\ UNCHANGED << i, exists, out, err, runs, prior >>

\* Leaving the with block, a write(2) of the flush fails (no space, I/O
\* error) after n of the buffered bytes were written: close() releases the
\* descriptor with the rest unwritten and the OSError ends the run.
CloseFail ==
    /\ pc = "exit"
    /\ \E n \in 0..(Len(buf) - 1) : Flushed(n)
    /\ pc' = "failed"
    /\ err' = "write"
    /\ UNCHANGED << i, exists, out, runs, outputs, prior >>

\* line 62
PrintLine ==
    /\ pc = "print"
    /\ out' = Append(out, Message)
    /\ pc' = "done"
    /\ UNCHANGED << i, exists, file, fpos, buf, err, runs, outputs, prior >>

\* The generator is run again, after the previous run ended; in between the
\* destination is left alone, deleted, or replaced by other content.
Rerun ==
    /\ pc \in {"done", "failed"}
    /\ runs < MaxRuns
    /\ runs' = runs + 1
    /\ \/ UNCHANGED << exists, file >>
       \/ exists' = FALSE /\ file' = << >>
       \/ exists' = TRUE /\ file' \in PriorContents
    /\ pc' = "start"
    /\ i' = 1
    /\ fpos' = 0
    /\ buf' = << >>
    /\ out' = << >>
    /\ err' = "none"
    /\ prior' = Kind(exists', file')
    /\ UNCHANGED outputs

Next ==
    \/ Open
    \/ OpenFail
    \/ WritePosition
    \/ WriteColor
    \/ WriteIndex
    \/ Close
    \/ CloseFail
    \/ PrintLine
    \/ Rerun

Spec == Init /\ [][Next]_vars

(***************************************************************************)
(* Definitions used to state the properties: a reader of the format,       *)
(* written from the format's description and not from struct.pack.         *)
(***************************************************************************)
\* The run has closed the destination after writing everything.
Emitted == pc \in {"print", "done"}

\* The run got past open().
Opened == pc # "start" /\ err # "open"

IsPrefix(s, t) == Len(s) <= Len(t) /\ s = SubSeq(t, 1, Len(s))

\* The value no integral float decodes to.
NotIntegral == 2^24 + 1

\* The value of the little-endian binary32 b (4 bytes), when it is 0 or an
\* integer of magnitude in 1..2^24-1; NotIntegral otherwise.
UnpackF(b) ==
    LET sign == b[4] \div 128
        bexp == (b[4] % 128) * 2 + (b[3] \div 128)
        frac == (b[3] % 128) * 65536 + b[2] * 256 + b[1]
        sig  == 8388608 + frac
        sh   == 150 - bexp
    IN  IF bexp = 0 /\ frac = 0 /\ sign = 0 THEN 0
        ELSE IF bexp >= 127 /\ bexp <= 150 /\ sig % (2^sh) = 0
               THEN (IF sign = 1 THEN -1 ELSE 1) * (sig \div (2^sh))
               ELSE NotIntegral

\* The value of the little-endian unsigned 16-bit b (2 bytes).
UnpackH(b) == b[1] + 256 * b[2]

\* The n float32 values of f that start at byte offset off.
Floats(f, off, n) ==
    [k \in 1..n |-> UnpackF(SubSeq(f, off + 4 * k - 3, off + 4 * k))]

\* The n uint16 values of f that start at byte offset off.
Shorts(f, off, n) ==
    [k \in 1..n |-> UnpackH(SubSeq(f, off + 2 * k - 1, off + 2 * k))]

\* A flat sequence cut into consecutive groups of w.
Groups(s, w) ==
    [g \in 1..(Len(s) \div w) |-> SubSeq(s, w * (g - 1) + 1, w * g)]

\* What a reader gets from a file f in the format.
ReadPositions(f) == Groups(Floats(f, 0, 24), 3)
ReadColors(f)    == Groups(Floats(f, 96, 32), 4)
ReadIndices(f)   == Shorts(f, 224, 36)

\* The scalars of a table packed one after the other.
PackedF(table) ==
    [k \in 1..(4 * Len(table)) |-> PackF(table[((k - 1) \div 4) + 1])[((k - 1) % 4) + 1]]
PackedH(table) ==
    [k \in 1..(2 * Len(table)) |-> PackH(table[((k - 1) \div 2) + 1])[((k - 1) % 2) + 1]]

\* The byte stream of a complete run: the packed tables, positions first.
FullStream == PackedF(positions) \o PackedF(colors) \o PackedH(indices)

(***************************************************************************)
(* C1                                                                      *)
(***************************************************************************)
\* C1: once a run has closed the destination, the destination exists and
\* holds exactly 296 bytes = 96 (positions) + 128 (colors) + 72 (indices),
\* all of them written by this run (the descriptor's offset went from 0 to
\* the end of the file), whatever the destination was before the run.
C1_ExactSize ==
    Emitted =>
        /\ exists
        /\ Len(file) = 296
        /\ 4 * Len(positions) = 96
        /\ 4 * Len(colors) = 128
        /\ 2 * Len(indices) = 72
        /\ fpos = Len(file)

\* a run that completed over a destination longer than its output
C1_Witness == pc = "done" /\ prior = "longer" /\ Len(file) = 296

(***************************************************************************)
(* C2                                                                      *)
(***************************************************************************)
\* The bytes the run has written so far, buffered or on the destination.
Stream == file \o buf

\* C2: while the run writes, the stream is the packed positions written so
\* far (at most 96 bytes), then, all positions being written, the packed
\* colors so far (96 up to 224 bytes), then the packed indices so far (224 up
\* to 296 bytes), each in its table's order; and the complete file is the
\* packed positions at offsets 0..95, the packed colors at 96..223 and the
\* packed indices at 224..295, with nothing before, between or after.
C2_SectionOrder ==
    /\ pc = "positions" =>
          Stream = SubSeq(PackedF(positions), 1, 4 * (i - 1))
    /\ pc = "colors" =>
          /\ Len(Stream) = 96 + 4 * (i - 1)
          /\ Stream = PackedF(positions) \o SubSeq(PackedF(colors), 1, 4 * (i - 1))
    /\ pc = "indices" =>
          /\ Len(Stream) = 224 + 2 * (i - 1)
          /\ Stream = PackedF(positions) \o PackedF(colors)
                        \o SubSeq(PackedH(indices), 1, 2 * (i - 1))
    /\ Emitted =>
          /\ Len(file) = 296
          /\ SubSeq(file, 1, 96) = PackedF(positions)
          /\ SubSeq(file, 97, 224) = PackedF(colors)
          /\ SubSeq(file, 225, 296) = PackedH(indices)

\* the run is in the middle of the colors, all positions behind it
C2_Witness == pc = "colors" /\ i = 17 /\ Len(Stream) = 160

(***************************************************************************)
(* C3                                                                      *)
(***************************************************************************)
\* C3: bytes [0,96) of the emitted file read, as 24 little-endian float32,
\* as the 8 corners (-1,-1,-1), (1,-1,-1), (1,1,-1), (-1,1,-1), (-1,-1,1),
\* (1,-1,1), (1,1,1), (-1,1,1) in this order; the first 4 bytes are
\* 00 00 80 BF, the float32 -1.0; every coordinate is -1 or 1 and the 8
\* corners are distinct.
C3_Positions ==
    Emitted =>
        LET P == ReadPositions(file)
        IN  /\ P = << <<-1, -1, -1>>, <<1, -1, -1>>, <<1, 1, -1>>, <<-1, 1, -1>>,
                      <<-1, -1, 1>>, <<1, -1, 1>>, <<1, 1, 1>>, <<-1, 1, 1>> >>
            /\ SubSeq(file, 1, 4) = <<0, 0, 128, 191>>
            /\ UnpackF(SubSeq(file, 1, 4)) = -1
            /\ \A v \in 1..8 : \A a \in 1..3 : P[v][a] \in {-1, 1}
            /\ Cardinality({ P[v] : v \in 1..8 }) = 8

\* a completed run, whose file starts with the x of vertex 0
C3_Witness == pc = "done" /\ Len(file) >= 96 /\ file[4] = 191

(***************************************************************************)
(* C4                                                                      *)
(***************************************************************************)
\* C4: bytes [224,296) of the emitted file read, as 36 little-endian uint16,
\* as the index list of the source; every index read is in 0..7, the range
\* of the 8 vertices, and is the table's value unchanged.
C4_Indices ==
    Emitted =>
        LET I == ReadIndices(file)
        IN  /\ I = << 4, 5, 6, 4, 6, 7, 1, 0, 3, 1, 3, 2, 5, 1, 2, 5, 2, 6,
                      0, 4, 7, 0, 7, 3, 7, 6, 2, 7, 2, 3, 0, 1, 5, 0, 5, 4 >>
            /\ \A k \in 1..36 : I[k] \in 0..7
            /\ \A k \in 1..36 : I[k] < Len(ReadPositions(file))
            /\ I = indices

\* a completed run, whose last index (4) is in the file's last two bytes
C4_Witness == pc = "done" /\ Len(file) = 296 /\ file[295] = 4 /\ file[296] = 0

(***************************************************************************)
(* C5                                                                      *)
(***************************************************************************)
\* C5: bytes [96,224) of the emitted file read, as 32 little-endian float32,
\* as the 8 colors black, red, yellow, green, blue, magenta, white, cyan in
\* this order; there are as many colors as positions (one per vertex) and
\* every channel is 0 or 1.
C5_Colors ==
    Emitted =>
        LET K == ReadColors(file)
        IN  /\ K = << <<0, 0, 0, 1>>, <<1, 0, 0, 1>>, <<1, 1, 0, 1>>, <<0, 1, 0, 1>>,
                      <<0, 0, 1, 1>>, <<1, 0, 1, 1>>, <<1, 1, 1, 1>>, <<0, 1, 1, 1>> >>
            /\ Len(K) = Len(ReadPositions(file))
            /\ Len(colors) \div 4 = Len(positions) \div 3
            /\ \A v \in 1..8 : \A c \in 1..4 : K[v][c] \in {0, 1}

\* a completed run, whose byte 111 ends the alpha 1.0 of vertex 0's color
C5_Witness == pc = "done" /\ Len(file) >= 224 /\ file[111] = 128 /\ file[112] = 63

(***************************************************************************)
(* C6                                                                      *)
(***************************************************************************)
\* The six faces of the cube: an axis (1 = x, 2 = y, 3 = z) and the value
\* the face's corners have on it.
Faces == { <<a, v>> : a \in 1..3, v \in {-1, 1} }

\* The triangle t (three 0-based vertex indices) has its corners on face F
\* of the vertex list P.
OnFace(P, t, F) == \A k \in 1..3 : P[t[k] + 1][F[1]] = F[2]

\* The indices I, cut into triples, are 12 triangles of distinct corners,
\* each on a face of the vertex list P, two to a face, the two of a face
\* using together the 4 corners of the face.
CoversFaces(P, I) ==
    LET T == Groups(I, 3)
    IN  /\ Len(I) = 36
        /\ Len(T) = 12
        /\ \A g \in 1..Len(T) :
              /\ Cardinality({ T[g][1], T[g][2], T[g][3] }) = 3
              /\ \E F \in Faces : OnFace(P, T[g], F)
        /\ \A F \in Faces :
              LET on      == { g \in 1..Len(T) : OnFace(P, T[g], F) }
                  used    == { T[g][k] : g \in on, k \in 1..3 }
                  corners == { v \in 0..(Len(P) - 1) : P[v + 1][F[1]] = F[2] }
              IN  /\ Cardinality(on) = 2
                  /\ Cardinality(corners) = 4
                  /\ used = corners

\* C6: the index table of the source over its position table, and the
\* indices read from the emitted file over the positions read from it,
\* are 12 triangles, each on one face, 2 per face, the 2 of a face using
\* the face's 4 corners.
C6_TwoTrianglesPerFace ==
    /\ CoversFaces(Groups(positions, 3), indices)
    /\ Emitted => CoversFaces(ReadPositions(file), ReadIndices(file))

\* a completed run, whose file holds the first triangle (4, 5, 6)
C6_Witness ==
    /\ pc = "done"
    /\ Len(file) = 296
    /\ SubSeq(ReadIndices(file), 1, 3) = <<4, 5, 6>>

(***************************************************************************)
(* C7                                                                      *)
(***************************************************************************)
Cross(u, w) ==
    << u[2] * w[3] - u[3] * w[2],
       u[3] * w[1] - u[1] * w[3],
       u[1] * w[2] - u[2] * w[1] >>

Dot(u, w) == u[1] * w[1] + u[2] * w[2] + u[3] * w[3]

Minus(u, w) == << u[1] - w[1], u[2] - w[2], u[3] - w[3] >>

\* The normal (P[b]-P[a]) x (P[c]-P[a]) of every triangle (a, b, c) of I
\* points out of the cube: along the outward direction of the triangle's
\* face, and away from the centre (0, 0, 0).
OutwardWinding(P, I) ==
    LET T == Groups(I, 3)
    IN  \A g \in 1..Len(T) :
           LET A == P[T[g][1] + 1]
               B == P[T[g][2] + 1]
               C == P[T[g][3] + 1]
               N == Cross(Minus(B, A), Minus(C, A))
           IN  /\ \E F \in Faces : OnFace(P, T[g], F) /\ N[F[1]] * F[2] > 0
               /\ Dot(N, A) > 0

\* C7: every triangle of the source's tables, and every triangle read from
\* the emitted file, is counter-clockwise seen from outside the cube.
C7_CounterClockwise ==
    /\ Len(Groups(indices, 3)) = 12
    /\ OutwardWinding(Groups(positions, 3), indices)
    /\ Emitted => OutwardWinding(ReadPositions(file), ReadIndices(file))

\* a completed run, whose file holds the last triangle (0, 5, 4)
C7_Witness ==
    /\ pc = "done"
    /\ Len(file) = 296
    /\ SubSeq(ReadIndices(file), 34, 36) = <<0, 5, 4>>

(***************************************************************************)
(* C8                                                                      *)
(***************************************************************************)
C8_Inv ==
    /\ out # << >> =>
          /\ pc = "done"
          /\ err = "none"
          /\ out = << Message >>
          /\ buf = << >>
          /\ out[1].bytes = 296
          /\ fpos = out[1].bytes
          /\ Len(file) = fpos
    /\ pc = "done" => out # << >>
    /\ pc = "failed" =>
          /\ out = << >>
          /\ err \in {"open", "write"}
    /\ (pc = "failed" /\ err = "open") =>
          /\ fpos = 0
          /\ buf = << >>
          /\ Kind(exists, file) = prior

C8_Step ==
    (pc = "start" /\ pc' = "failed") =>
        /\ err' = "open"
        /\ file' = file
        /\ exists' = exists

\* C8: a line is printed only by a run that wrote everything and closed the
\* file, it is the only line, and the 296 bytes it states are the bytes the
\* run wrote and the file holds; a run that failed printed nothing and
\* ended with the error of open() or of the write; a run whose open()
\* failed wrote nothing and left the destination as it was.
C8_ReportOrError == []C8_Inv /\ [][C8_Step]_vars

\* a run that printed its line, started after a run that had failed
C8_Witness ==
    /\ pc = "done"
    /\ out = << Message >>
    /\ runs = 2
    /\ Len(outputs) = 1

(***************************************************************************)
(* C9                                                                      *)
(***************************************************************************)
\* C9: all successful runs left the same content, whatever the destination
\* was before each of them; in particular a run over the output of an
\* earlier run leaves that same content.
C9_Deterministic ==
    /\ \A a, b \in DOMAIN outputs : outputs[a] = outputs[b]
    /\ Emitted => \A a \in DOMAIN outputs : outputs[a] = file
    /\ \A a \in DOMAIN outputs : Len(outputs[a]) = 296

\* a second successful run, over the output of the first
C9_Witness == pc = "done" /\ Len(outputs) = 2 /\ prior = "equal"

(***************************************************************************)
(* C10                                                                     *)
(***************************************************************************)
C10_Inv ==
    /\ Opened =>
          /\ exists
          /\ IsPrefix(file, FullStream)
          /\ fpos = Len(file)
    /\ (pc = "failed" /\ err = "write") => Len(file) < 296

C10_Step ==
    /\ (Opened /\ pc' # "start") => IsPrefix(file, file')
    /\ (pc = "failed" /\ runs' = runs) => UNCHANGED << file, fpos, buf >>

\* C10: from open() on, the destination holds a prefix of the complete 296
\* byte stream, written from offset 0 on with nothing rewritten, and each
\* step of the run only extends it; after a failed write it is shorter
\* than 296 bytes, and the failed run writes nothing more.
C10_PrefixOnFailure == []C10_Inv /\ [][C10_Step]_vars

\* a run over a longer destination whose write failed in the middle of a
\* color scalar
C10_Witness ==
    /\ pc = "failed"
    /\ err = "write"
    /\ Len(file) = 150
    /\ prior = "longer"

=============================================================================
